---- MODULE Spec2Model ----
\* Render targets, the screen and the Phong deferred pipeline of three-d,
\* modelled over the state of the graphics context they drive: which
\* framebuffer is bound for drawing, the write mask, the clear registers and
\* the contents of the surfaces that framebuffers write to.
EXTENDS Integers, Sequences, FiniteSets, TLC

\* ---------------------------------------------------------------- bounds
MaxTargets == 2    \* RenderTarget values that can be alive at once
MaxDepth == 2      \* nesting depth of render closures
MaxSteps == 2      \* statements (draws, calls) of one render closure
MaxVal == 1        \* channel values are 0..MaxVal (standing for [0, 1])
MaxPasses == 2     \* geometry_pass calls on the pipeline

\* ---------------------------------------------------------------- values
\* Option<T>: None is the empty sequence, Some(v) the one-element sequence.
None == <<>>
Some(v) == <<v>>
is_some(o) == o /= None
is_none(o) == o = None
unwrap_or(o, d) == IF is_some(o) THEN o[1] ELSE d
\* Option::and: None if self is None, otherwise the argument.
and(present, o) == IF present THEN o ELSE None

Values == 0..MaxVal
OptValues == {None} \cup {Some(v) : v \in Values}
ColorChannels == {"red", "green", "blue", "alpha"}
Channels == ColorChannels \cup {"depth"}

\* ClearState: one Option<f32> per channel.
ClearState == [Channels -> OptValues]
ClearState_none == [c \in Channels |-> None]
ClearState_depth(d) == [c \in Channels |-> IF c = "depth" THEN Some(d) ELSE None]
ClearState_color(r, g, b, a) ==
    [red |-> Some(r), green |-> Some(g), blue |-> Some(b), alpha |-> Some(a),
     depth |-> None]
ClearState_color_and_depth(r, g, b, a, d) ==
    [red |-> Some(r), green |-> Some(g), blue |-> Some(b), alpha |-> Some(a),
     depth |-> Some(d)]
\* Default for ClearState: color_and_depth(0.0, 0.0, 0.0, 1.0, 1.0); 1.0 is MaxVal.
ClearState_default == ClearState_color_and_depth(0, 0, 0, MaxVal, MaxVal)

\* WriteMask values used by the copy functions and by RenderStates::default().
WriteMask_COLOR == [c \in Channels |-> c /= "depth"]
WriteMask_DEPTH == [c \in Channels |-> c = "depth"]
WriteMask_COLOR_AND_DEPTH == [c \in Channels |-> TRUE]

\* Error values (the variants of Error that the modelled code returns), the
\* success value and the outcome of a call that panics.
Ok == "Ok"
Panic == "panic"
FailedToCopyFromRenderTarget == "FailedToCopyFromRenderTarget"
FailedToCreateFramebuffer == "FailedToCreateFramebuffer"
FailedToCreateMesh == "FailedToCreateMesh"
ApiError == "ApiError"          \* an error returned by a graphics-API wrapper
RenderError == "RenderError"    \* an error returned by a render closure

\* Framebuffer names: 0 is the default framebuffer (bind_framebuffer(.., None)).
Screen == 0
Slots == 1..MaxTargets
\* One framebuffer per live RenderTarget, plus the temporaries of the pipeline
\* (one RenderTargetArray in geometry_pass; a RenderTargetArray and a
\* RenderTarget in geometry_pass_depth_texture).
FbIds == 1..(MaxTargets + 2)
NoTarget == [id |-> 0, color_texture |-> FALSE, depth_texture |-> FALSE]

VARIABLES
    ctx,           \* the graphics context
    framebuffers,  \* names of the framebuffer objects that exist
    targets,       \* the RenderTarget value in each slot, or NoTarget
    stack,         \* the write calls whose render closure is running
    ret,           \* the call that has just returned and its result, if any
    COPY_EFFECT,   \* the static COPY_EFFECT options: is each Some
    pipeline,      \* the PhongDeferredPipeline
    mesh,          \* the Mesh: which of its optional buffers are Some
    program        \* the MeshProgram: the attributes its shader uses

vars == <<ctx, framebuffers, targets, stack, ret, COPY_EFFECT, pipeline, mesh, program>>

\* ------------------------------------------------- the graphics context
\* The surface a framebuffer writes to: the screen for the default
\* framebuffer, the textures of a render target for that target's
\* framebuffer (RenderTarget::bind attaches them on every bind), and no
\* tracked surface for the temporaries of the pipeline.
Untracked == MaxTargets + 1
SurfaceOf(fb) ==
    IF fb = Screen THEN Screen
    ELSE IF \E s \in Slots : targets[s].id = fb
         THEN CHOOSE s \in Slots : targets[s].id = fb
         ELSE Untracked

\* Whether the framebuffer has an attachment holding the channel.
HasChannel(fb, ch) ==
    IF fb = Screen THEN TRUE
    ELSE IF SurfaceOf(fb) = Untracked THEN FALSE
    ELSE IF ch = "depth" THEN targets[SurfaceOf(fb)].depth_texture
    ELSE targets[SurfaceOf(fb)].color_texture

\* context.bind_framebuffer(DRAW_FRAMEBUFFER, fb)
bind_framebuffer(c, fb) == [c EXCEPT !.draw_fb = fb]

\* Program::set_write_mask(context, mask)
set_write_mask(c, mask) == [c EXCEPT !.mask = mask]

\* context.clear_color(r, g, b, a) and context.clear_depth(d) set registers.
clear_color(c, r, g, b, a) ==
    [c EXCEPT !.clear_color = [red |-> r, green |-> g, blue |-> b, alpha |-> a]]
clear_depth(c, d) == [c EXCEPT !.clear_depth = d]

COLOR_BUFFER_BIT == "COLOR_BUFFER_BIT"
DEPTH_BUFFER_BIT == "DEPTH_BUFFER_BIT"

\* Writes px to the channels of the bound draw framebuffer that are selected,
\* enabled by the write mask and backed by an attachment.
write_pixels(c, selected, px) ==
    IF SurfaceOf(c.draw_fb) = Untracked THEN c
    ELSE [c EXCEPT !.content[SurfaceOf(c.draw_fb)] =
            [ch \in Channels |->
                IF ch \in selected /\ c.mask[ch] /\ HasChannel(c.draw_fb, ch)
                THEN px[ch] ELSE @[ch]]]

\* context.clear(bits): fills the selected buffers of the bound draw
\* framebuffer with the clear registers, subject to the write mask.
context_clear(c, bits) ==
    write_pixels(c,
        (IF COLOR_BUFFER_BIT \in bits THEN ColorChannels ELSE {})
            \cup (IF DEPTH_BUFFER_BIT \in bits THEN {"depth"} ELSE {}),
        [ch \in Channels |->
            IF ch = "depth" THEN c.clear_depth ELSE c.clear_color[ch]])

\* A draw call of a program (draw_arrays, draw_elements): sets the write mask
\* of the render states and writes the fragments to the bound framebuffer.
draw(c, write_mask, px) ==
    write_pixels(set_write_mask(c, write_mask), Channels, px)

\* clear setting the clear color only when all four color channels are given.
clear_all_or_nothing(c, clear_state) ==
    LET masked == set_write_mask(c, [ch \in Channels |-> is_some(clear_state[ch])])
        clear_color_flag ==
            /\ is_some(clear_state.red)
            /\ is_some(clear_state.green)
            /\ is_some(clear_state.blue)
            /\ is_some(clear_state.alpha)
        colored ==
            IF clear_color_flag
            THEN clear_color(masked, clear_state.red[1], clear_state.green[1],
                             clear_state.blue[1], clear_state.alpha[1])
            ELSE masked
        depthed ==
            IF is_some(clear_state.depth)
            THEN clear_depth(colored, clear_state.depth[1])
            ELSE colored
    IN  context_clear(depthed,
            IF clear_color_flag /\ is_some(clear_state.depth)
            THEN {COLOR_BUFFER_BIT, DEPTH_BUFFER_BIT}
            ELSE IF clear_color_flag THEN {COLOR_BUFFER_BIT}
            ELSE {DEPTH_BUFFER_BIT})

\* clear leaving the write mask as it finds it.
clear_unmasked(c, clear_state) ==
    LET clear_color_flag ==
            \/ is_some(clear_state.red)
            \/ is_some(clear_state.green)
            \/ is_some(clear_state.blue)
            \/ is_some(clear_state.alpha)
        colored ==
            IF clear_color_flag
            THEN clear_color(c,
                    unwrap_or(clear_state.red, 0),
                    unwrap_or(clear_state.green, 0),
                    unwrap_or(clear_state.blue, 0),
                    unwrap_or(clear_state.alpha, MaxVal))
            ELSE c
        depthed ==
            IF is_some(clear_state.depth)
            THEN clear_depth(colored, clear_state.depth[1])
            ELSE colored
    IN  context_clear(depthed,
            IF clear_color_flag /\ is_some(clear_state.depth)
            THEN {COLOR_BUFFER_BIT, DEPTH_BUFFER_BIT}
            ELSE IF clear_color_flag THEN {COLOR_BUFFER_BIT}
            ELSE {DEPTH_BUFFER_BIT})

\* fn clear(context, clear_state)
clear(c, clear_state) ==
    LET masked == set_write_mask(c, [ch \in Channels |-> is_some(clear_state[ch])])
        clear_color_flag ==
            \/ is_some(clear_state.red)
            \/ is_some(clear_state.green)
            \/ is_some(clear_state.blue)
            \/ is_some(clear_state.alpha)
        colored ==
            IF clear_color_flag
            THEN clear_color(masked,
                    unwrap_or(clear_state.red, 0),
                    unwrap_or(clear_state.green, 0),
                    unwrap_or(clear_state.blue, 0),
                    unwrap_or(clear_state.alpha, MaxVal))
            ELSE masked
        depthed ==
            IF is_some(clear_state.depth)
            THEN clear_depth(colored, clear_state.depth[1])
            ELSE colored
    IN  context_clear(depthed,
            IF clear_color_flag /\ is_some(clear_state.depth)
            THEN {COLOR_BUFFER_BIT, DEPTH_BUFFER_BIT}
            ELSE IF clear_color_flag THEN {COLOR_BUFFER_BIT}
            ELSE {DEPTH_BUFFER_BIT})

\* context.create_framebuffer(): the unused framebuffer name it returns.
create_framebuffer_among(existing) ==
    CHOOSE i \in FbIds \ existing : \A j \in FbIds \ existing : i <= j
create_framebuffer == create_framebuffer_among(framebuffers)

\* context.delete_framebuffer(id): deleting the framebuffer that is bound for
\* drawing binds the default framebuffer in its place.
delete_framebuffer(c, id) ==
    IF c.draw_fb = id THEN bind_framebuffer(c, Screen) ELSE c

\* The framebuffer objects that exist after new_framebuffer has created one.
created_framebuffers(existing) ==
    existing \cup {create_framebuffer_among(existing)}

\* Drop leaving its framebuffer in existence.
deleted_framebuffers_leaking(existing, id) == existing

\* The framebuffer objects that exist after Drop has deleted the one named id.
deleted_framebuffers(existing, id) == existing \ {id}

\* ------------------------------------------------------------ call records
\* The steps of a call, in order: "bind" (the draw framebuffer is bound),
\* "clear", "render" (the render closure is called), then the statements of
\* the closure ("draw", "apply", "call" for a call of another function of
\* this model) and "generate_mip_maps".
Events(log, ev) == {i \in 1..Len(log) : log[i] = ev}
\* What a call did and returned: the context it leaves, its return value,
\* the steps it took and the state of the static copy effects.
Outcome(c, value, log, effect) ==
    [ctx |-> c, value |-> value, log |-> log, effect |-> effect]

Top == stack[Len(stack)]
\* The statements the running closure has executed so far.
ClosureSteps(frame) == Cardinality(Events(frame.log, "draw") \cup Events(frame.log, "call"))
\* A call can be made at top level, or as a statement of the running closure.
CanCall == IF stack = <<>> THEN TRUE ELSE ClosureSteps(Top) < MaxSteps
\* The stack after the caller (if it is a closure) has made a call.
Called ==
    IF stack = <<>> THEN stack
    ELSE [stack EXCEPT ![Len(stack)].log = Append(@, "call")]
\* Slots borrowed by a running write call.
Borrowed == {stack[i].slot : i \in 1..Len(stack)}

\* The record of a call that returned: the function, the render target it was
\* called on (NoTarget for the screen), its return value and its steps.
Return(op, t, value, log) ==
    [op |-> op, color_texture |-> t.color_texture,
     depth_texture |-> t.depth_texture, value |-> value, log |-> log]
\* ret after a step that returns nothing to its caller.
NoReturn == Return("none", NoTarget, Ok, <<>>)

\* ------------------------------------------------------------------ Screen
\* Screen::write up to the call of the render closure.
Screen_write(c, clear_state) ==
    LET bound == bind_framebuffer(c, Screen)
        cleared == clear(bound, clear_state)
    IN  Outcome(cleared, Ok, <<"bind", "clear", "render">>, COPY_EFFECT)

\* ------------------------------------------------------------ RenderTarget
\* RenderTarget::bind; check_ok is the result of check_framebuffer_status,
\* which only a build with the "debug" feature asks for (it is TRUE in a
\* build without the feature).
RenderTarget_bind(c, t, check_ok) ==
    LET bound == bind_framebuffer(c, t.id)
    IN  Outcome(bound,
                IF ~check_ok THEN FailedToCreateFramebuffer ELSE Ok,
                <<"bind">>, COPY_EFFECT)

\* RenderTarget::write up to the call of the render closure.
RenderTarget_write(c, t, clear_state, check_ok) ==
    LET bound == RenderTarget_bind(c, t, check_ok)
        cleared ==
            clear(bound.ctx,
                [red |-> and(t.color_texture, clear_state.red),
                 green |-> and(t.color_texture, clear_state.green),
                 blue |-> and(t.color_texture, clear_state.blue),
                 alpha |-> and(t.color_texture, clear_state.alpha),
                 depth |-> and(t.depth_texture, clear_state.depth)])
    IN  IF bound.value /= Ok THEN bound
        ELSE Outcome(cleared, Ok, bound.log \o <<"clear", "render">>, COPY_EFFECT)

\* write generating the mip maps whatever the closure returned.
RenderTarget_write_end_always(c, t, render_value, log) ==
    IF t.color_texture
    THEN Outcome(c, render_value, Append(log, "generate_mip_maps"), COPY_EFFECT)
    ELSE Outcome(c, render_value, log, COPY_EFFECT)

\* write finishing as after a successful closure whatever it returned.
RenderTarget_write_end_swallowing(c, t, render_value, log) ==
    IF t.color_texture
    THEN Outcome(c, Ok, Append(log, "generate_mip_maps"), COPY_EFFECT)
    ELSE Outcome(c, Ok, log, COPY_EFFECT)

\* The rest of RenderTarget::write, after the closure returned render_value.
RenderTarget_write_end(c, t, render_value, log) ==
    IF render_value /= Ok THEN Outcome(c, render_value, log, COPY_EFFECT)
    ELSE IF t.color_texture
         THEN Outcome(c, Ok, Append(log, "generate_mip_maps"), COPY_EFFECT)
         ELSE Outcome(c, Ok, log, COPY_EFFECT)

\* --------------------------------------------------- the copy functions
\* What the environment decides for one call: the results of the fallible
\* graphics calls it makes and the fragments a draw produces.
\* A call returns at the first graphics call that fails, so at most one of
\* the results is a failure.
Pixels == {[ch \in Channels |-> v] : v \in Values}
Results ==
    {r \in [effect_ok : BOOLEAN, texture_ok : BOOLEAN, apply_ok : BOOLEAN,
            check_ok : BOOLEAN] :
        Cardinality({f \in {"effect_ok", "texture_ok", "apply_ok", "check_ok"} :
                        ~r[f]}) <= 1}
InputsOver(pixels) ==
    {[effect_ok |-> r.effect_ok, texture_ok |-> r.texture_ok,
      apply_ok |-> r.apply_ok, check_ok |-> r.check_ok, px |-> px] :
        r \in Results, px \in pixels}
\* The main specification keeps the contents of every surface at zero: its
\* callers clear to zero and its draws produce zero.
Black == {[ch \in Channels |-> 0]}
Inputs == InputsOver(Black)

\* get_copy_effect: creates the static effect on first use.
get_copy_effect(effect, in) ==
    IF effect.copy THEN [value |-> Ok, effect |-> effect]
    ELSE IF in.effect_ok
         THEN [value |-> Ok, effect |-> [effect EXCEPT !.copy = TRUE]]
         ELSE [value |-> ApiError, effect |-> effect]

\* ImageEffect::apply(render_states, viewport): draws a full-screen quad.
ImageEffect_apply(c, log, write_mask, in) ==
    IF ~in.apply_ok
    THEN [ctx |-> c, value |-> ApiError, log |-> Append(log, "apply")]
    ELSE [ctx |-> draw(c, write_mask, in.px), value |-> Ok,
          log |-> log \o <<"apply", "draw">>]

\* The render closure of the copy functions: get the effect, bind the
\* textures to it, apply it with the given write mask.
copy_render(c, log, write_mask, in) ==
    LET got == get_copy_effect(COPY_EFFECT, in)
        applied == ImageEffect_apply(c, log, write_mask, in)
    IN  IF got.value /= Ok THEN Outcome(c, got.value, log, got.effect)
        ELSE IF ~in.texture_ok THEN Outcome(c, ApiError, log, got.effect)
        ELSE Outcome(applied.ctx, applied.value, applied.log, got.effect)

\* copy_to_screen refusing only a target that has neither texture.
copy_to_screen_either(c, t, in) ==
    IF ~t.color_texture /\ ~t.depth_texture
    THEN Outcome(c, FailedToCopyFromRenderTarget, <<>>, COPY_EFFECT)
    ELSE LET begun == Screen_write(c, ClearState_none)
         IN  copy_render(begun.ctx, begun.log, WriteMask_COLOR_AND_DEPTH, in)

\* RenderTarget::copy_to_screen
copy_to_screen(c, t, in) ==
    IF ~t.color_texture \/ ~t.depth_texture
    THEN Outcome(c, FailedToCopyFromRenderTarget, <<>>, COPY_EFFECT)
    ELSE LET begun == Screen_write(c, ClearState_none)
         IN  copy_render(begun.ctx, begun.log, WriteMask_COLOR_AND_DEPTH, in)

\* copy_color_to_screen with the check of copy_to_screen.
copy_color_to_screen_both(c, t, in) ==
    IF ~t.color_texture \/ ~t.depth_texture
    THEN Outcome(c, FailedToCopyFromRenderTarget, <<>>, COPY_EFFECT)
    ELSE LET begun == Screen_write(c, ClearState_none)
         IN  copy_render(begun.ctx, begun.log, WriteMask_COLOR, in)

\* RenderTarget::copy_color_to_screen
copy_color_to_screen(c, t, in) ==
    IF ~t.color_texture
    THEN Outcome(c, FailedToCopyFromRenderTarget, <<>>, COPY_EFFECT)
    ELSE LET begun == Screen_write(c, ClearState_none)
         IN  copy_render(begun.ctx, begun.log, WriteMask_COLOR, in)

\* copy_depth_to_screen with the check of copy_color_to_screen.
copy_depth_to_screen_color(c, t, in) ==
    IF ~t.color_texture
    THEN Outcome(c, FailedToCopyFromRenderTarget, <<>>, COPY_EFFECT)
    ELSE LET begun == Screen_write(c, ClearState_none)
         IN  copy_render(begun.ctx, begun.log, WriteMask_DEPTH, in)

\* RenderTarget::copy_depth_to_screen
copy_depth_to_screen(c, t, in) ==
    IF ~t.depth_texture
    THEN Outcome(c, FailedToCopyFromRenderTarget, <<>>, COPY_EFFECT)
    ELSE LET begun == Screen_write(c, ClearState_none)
         IN  copy_render(begun.ctx, begun.log, WriteMask_DEPTH, in)

\* other.write(&ClearState::none(), closure) of copy, copy_color, copy_depth.
copy_into(c, other, write_mask, in) ==
    LET begun == RenderTarget_write(c, other, ClearState_none, in.check_ok)
        rendered == copy_render(begun.ctx, begun.log, write_mask, in)
        ended == RenderTarget_write_end(rendered.ctx, other, rendered.value,
                                        rendered.log)
    IN  IF begun.value /= Ok THEN begun
        ELSE [ended EXCEPT !.effect = rendered.effect]

\* copy checking only the textures of the other render target.
copy_other_only(c, t, other, in) ==
    IF ~other.color_texture \/ ~other.depth_texture
    THEN Outcome(c, FailedToCopyFromRenderTarget, <<>>, COPY_EFFECT)
    ELSE copy_into(c, other, WriteMask_COLOR_AND_DEPTH, in)

\* RenderTarget::copy
copy(c, t, other, in) ==
    IF \/ ~t.color_texture \/ ~t.depth_texture
       \/ ~other.color_texture \/ ~other.depth_texture
    THEN Outcome(c, FailedToCopyFromRenderTarget, <<>>, COPY_EFFECT)
    ELSE copy_into(c, other, WriteMask_COLOR_AND_DEPTH, in)

\* copy_color checking only the texture of the other render target.
copy_color_other_only(c, t, other, in) ==
    IF ~other.color_texture
    THEN Outcome(c, FailedToCopyFromRenderTarget, <<>>, COPY_EFFECT)
    ELSE copy_into(c, other, WriteMask_COLOR, in)

\* RenderTarget::copy_color
copy_color(c, t, other, in) ==
    IF ~t.color_texture \/ ~other.color_texture
    THEN Outcome(c, FailedToCopyFromRenderTarget, <<>>, COPY_EFFECT)
    ELSE copy_into(c, other, WriteMask_COLOR, in)

\* RenderTarget::copy_depth
copy_depth(c, t, other, in) ==
    IF ~t.depth_texture \/ ~other.depth_texture
    THEN Outcome(c, FailedToCopyFromRenderTarget, <<>>, COPY_EFFECT)
    ELSE copy_into(c, other, WriteMask_DEPTH, in)

\* ------------------------------------------------ PhongDeferredPipeline
\* A texture array of the pipeline: the geometry_pass call that created it
\* (0 for the 1x1 textures PhongDeferredPipeline::new creates) and whether a
\* render target has written to it.
Texture(created_by, written) == [created_by |-> created_by, written |-> written]

\* DebugType: NONE and one of the visualisations.
DebugType == {"NONE", "DEPTH"}
\* The key of program_map for the lights the callers of this model pass.
LightsKey == "true,1,0,0"

\* The fallible calls the operations of the pipeline and of the mesh make.
\* The environment decides which of them fails, if any; a call returns or
\* panics at the first failure, so one failure per call is enough.
PipelineCalls ==
    {"color_texture", "depth_texture", "framebuffer", "other_framebuffer",
     "check", "effect", "uniform", "gbuffer", "depthMap", "apply"}
PipelineInputs == [fails : PipelineCalls \cup {"none"}, px : Black]

\* The value PhongDeferredPipeline::new returns when it returns Ok; gbuffer
\* and depthMap are the textures bound to the samplers of the light pass.
PhongDeferredPipeline_new ==
    [program_map |-> {},
     debug_effect |-> FALSE,
     debug_type |-> "NONE",
     geometry_pass_texture |-> Some(Texture(0, FALSE)),
     geometry_pass_depth_texture |-> Some(Texture(0, FALSE)),
     passes |-> 0,
     gbuffer |-> None,
     depthMap |-> None]

\* The result of PhongDeferredPipeline::new.
PhongDeferredPipeline_new_value(in) ==
    IF in.fails \in {"color_texture", "depth_texture"} THEN ApiError ELSE Ok

\* RenderTargetArray::write up to the call of the render closure, and its
\* rest: the same steps as RenderTarget::write, on the array's framebuffer.
RenderTargetArray_write(c, t, clear_state, check_ok) ==
    RenderTarget_write(c, t, clear_state, check_ok)
RenderTargetArray_write_end(c, t, render_value, log) ==
    RenderTarget_write_end(c, t, render_value, log)

\* What a call on the pipeline did: the context and the pipeline it leaves,
\* its result and its steps.
PipelineOutcome(c, p, value, log) ==
    [ctx |-> c, pipeline |-> p, value |-> value, log |-> log]

\* geometry_pass up to the call of the render closure: assigns the new color
\* texture, then the new depth texture, then creates the temporary
\* RenderTargetArray and starts its write. Each ? returns with the fields
\* assigned so far; the temporary is dropped when write returns an error.
geometry_pass(c, p, in) ==
    LET n == p.passes + 1
        counted == [p EXCEPT !.passes = n]
        colored == [counted EXCEPT !.geometry_pass_texture = Some(Texture(n, FALSE))]
        depthed == [colored EXCEPT !.geometry_pass_depth_texture = Some(Texture(n, FALSE))]
        id == create_framebuffer
        target == [id |-> id, color_texture |-> TRUE, depth_texture |-> TRUE]
        begun == RenderTargetArray_write(c, target, ClearState_default,
                                         in.fails /= "check")
        cleared == [depthed EXCEPT
                        !.geometry_pass_texture = Some(Texture(n, TRUE)),
                        !.geometry_pass_depth_texture = Some(Texture(n, TRUE))]
    IN  IF in.fails = "color_texture"
        THEN PipelineOutcome(c, counted, ApiError, <<>>)
        ELSE IF in.fails = "depth_texture"
        THEN PipelineOutcome(c, colored, ApiError, <<>>)
        ELSE IF in.fails = "framebuffer"
        THEN PipelineOutcome(c, depthed, FailedToCreateFramebuffer, <<>>)
        ELSE IF begun.value /= Ok
        THEN PipelineOutcome(delete_framebuffer(begun.ctx, id), depthed,
                             begun.value, begun.log)
        ELSE PipelineOutcome(begun.ctx, cleared, Ok, begun.log)

\* The framebuffer objects that exist when geometry_pass hands over to the
\* render closure or returns early: none is created when a texture or the
\* framebuffer cannot be created, and the temporary RenderTargetArray is
\* dropped at once when its write returns the error of bind.
geometry_pass_framebuffers(existing, in) ==
    IF in.fails \in {"color_texture", "depth_texture", "framebuffer"}
    THEN existing
    ELSE IF in.fails = "check"
    THEN deleted_framebuffers(created_framebuffers(existing),
                              create_framebuffer_among(existing))
    ELSE created_framebuffers(existing)

\* The rest of geometry_pass after the closure returned: the rest of write,
\* then the temporary RenderTargetArray is dropped.
geometry_pass_end(c, p, id, render_value, log) ==
    LET target == [id |-> id, color_texture |-> TRUE, depth_texture |-> TRUE]
        ended == RenderTargetArray_write_end(c, target, render_value, log)
    IN  PipelineOutcome(delete_framebuffer(ended.ctx, id), p, ended.value, ended.log)

\* light_pass: gets (on first use creates) the effect of its branch, sets
\* the uniforms, binds geometry_pass_texture as "gbuffer" and
\* geometry_pass_depth_texture as "depthMap" and applies the effect. The
\* debug branch unwraps the result of ImageEffect::new, the normal branch
\* returns it with ?. The camera matrix is taken to be invertible.
light_pass(c, p, in) ==
    LET debug == p.debug_type /= "NONE"
        has_effect == IF debug THEN p.debug_effect ELSE LightsKey \in p.program_map
        made == IF debug THEN [p EXCEPT !.debug_effect = TRUE]
                ELSE [p EXCEPT !.program_map = @ \cup {LightsKey}]
        gbuffered == [made EXCEPT !.gbuffer = p.geometry_pass_texture]
        depthed == [gbuffered EXCEPT !.depthMap = p.geometry_pass_depth_texture]
        applied == ImageEffect_apply(c, <<"gbuffer", "depthMap">>,
                        WriteMask_COLOR_AND_DEPTH,
                        [apply_ok |-> in.fails /= "apply", px |-> in.px])
    IN  IF ~has_effect /\ in.fails = "effect"
        THEN PipelineOutcome(c, p, IF debug THEN Panic ELSE ApiError, <<>>)
        ELSE IF in.fails \in {"uniform", "gbuffer"}
        THEN PipelineOutcome(c, made, ApiError, <<>>)
        ELSE IF in.fails = "depthMap"
        THEN PipelineOutcome(c, gbuffered, ApiError, <<"gbuffer">>)
        ELSE PipelineOutcome(applied.ctx, depthed, applied.value, applied.log)

\* get_copy_array_effect: creates the static effect on first use.
get_copy_array_effect(effect, in) ==
    IF effect.copy_array THEN [value |-> Ok, effect |-> effect]
    ELSE IF in.fails /= "effect"
         THEN [value |-> Ok, effect |-> [effect EXCEPT !.copy_array = TRUE]]
         ELSE [value |-> ApiError, effect |-> effect]

\* RenderTargetArray::copy_depth into a RenderTarget with a depth texture,
\* as geometry_pass_depth_texture calls it: other.write with
\* ClearState::none() and a closure that applies the copy array effect.
RenderTargetArray_copy_depth(c, other, in) ==
    LET begun == RenderTarget_write(c, other, ClearState_none, in.fails /= "check")
        got == get_copy_array_effect(COPY_EFFECT, in)
        applied == ImageEffect_apply(begun.ctx, begun.log, WriteMask_DEPTH,
                        [apply_ok |-> in.fails /= "apply", px |-> in.px])
        ended == RenderTarget_write_end(applied.ctx, other, applied.value, applied.log)
    IN  IF begun.value /= Ok THEN begun
        ELSE IF got.value /= Ok
        THEN Outcome(begun.ctx, got.value, begun.log, got.effect)
        ELSE IF in.fails \in {"depthMap", "uniform"}
        THEN Outcome(begun.ctx, ApiError, begun.log, got.effect)
        ELSE Outcome(ended.ctx, ended.value, ended.log, got.effect)

\* geometry_pass_depth_texture: creates a depth texture, a temporary
\* RenderTargetArray over the depth array and a temporary RenderTarget over
\* the new texture, copies the depth and drops the temporaries. Every
\* result is unwrapped.
geometry_pass_depth_texture(c, in) ==
    LET array_id == create_framebuffer
        other_id == create_framebuffer_among(framebuffers \cup {array_id})
        other == [id |-> other_id, color_texture |-> FALSE, depth_texture |-> TRUE]
        copied == RenderTargetArray_copy_depth(c, other, in)
        dropped == delete_framebuffer(delete_framebuffer(copied.ctx, other_id), array_id)
    IN  IF in.fails \in {"depth_texture", "framebuffer", "other_framebuffer"}
        THEN Outcome(c, Panic, <<>>, COPY_EFFECT)
        ELSE Outcome(dropped, IF copied.value /= Ok THEN Panic ELSE Ok,
                     copied.log, copied.effect)

\* The framebuffer objects that exist when geometry_pass_depth_texture has
\* returned or panicked: the temporaries created so far are dropped, also
\* when a panic unwinds.
geometry_pass_depth_texture_framebuffers(existing, in) ==
    LET array_id == create_framebuffer_among(existing)
        with_array == created_framebuffers(existing)
        other_id == create_framebuffer_among(with_array)
        with_both == created_framebuffers(with_array)
    IN  IF in.fails \in {"depth_texture", "framebuffer"} THEN existing
        ELSE IF in.fails = "other_framebuffer"
        THEN deleted_framebuffers(with_array, array_id)
        ELSE deleted_framebuffers(deleted_framebuffers(with_both, other_id), array_id)

\* ------------------------------------------------------------------- Mesh
\* The fallible graphics calls of Mesh::render, by the name they are given.
MeshCalls == {"modelMatrix", "position", "uv_coordinates", "normalMatrix", "normal", "color"}
MeshInputs == [fails : MeshCalls \cup {"none"}, invertible : BOOLEAN, px : Black]

\* Mesh::render: sets the model matrix and the positions, then for each
\* attribute the program uses takes the mesh's buffer (ok_or ... ?) and
\* binds it, then issues draw_elements or draw_arrays. For the normals it
\* unwraps the inverse of the transformation.
Mesh_render(c, prog, m, in) ==
    LET uvs == IF ~prog.use_uvs THEN Ok
               ELSE IF ~m.uv_buffer THEN FailedToCreateMesh
               ELSE IF in.fails = "uv_coordinates" THEN ApiError ELSE Ok
        normals == IF ~prog.use_normals THEN Ok
                   ELSE IF ~m.normal_buffer THEN FailedToCreateMesh
                   ELSE IF ~in.invertible THEN Panic
                   ELSE IF in.fails \in {"normalMatrix", "normal"} THEN ApiError ELSE Ok
        colors == IF ~prog.use_colors THEN Ok
                  ELSE IF ~m.color_buffer THEN FailedToCreateMesh
                  ELSE IF in.fails = "color" THEN ApiError ELSE Ok
        value == IF in.fails \in {"modelMatrix", "position"} THEN ApiError
                 ELSE IF uvs /= Ok THEN uvs
                 ELSE IF normals /= Ok THEN normals
                 ELSE colors
    IN  IF value /= Ok THEN [ctx |-> c, value |-> value, log |-> <<>>]
        ELSE [ctx |-> draw(c, WriteMask_COLOR_AND_DEPTH, in.px), value |-> Ok,
              log |-> <<IF m.index_buffer THEN "draw_elements" ELSE "draw_arrays">>]

\* ------------------------------------------------------------------ state
Init ==
    /\ ctx = [draw_fb |-> Screen,
              mask |-> WriteMask_COLOR_AND_DEPTH,
              clear_color |-> [ch \in ColorChannels |-> 0],
              clear_depth |-> MaxVal,
              content |-> [s \in {Screen} \cup Slots |-> [ch \in Channels |-> 0]]]
    /\ framebuffers = {}
    /\ targets = [s \in Slots |-> NoTarget]
    /\ stack = <<>>
    /\ ret = NoReturn
    /\ COPY_EFFECT = [copy |-> FALSE, copy_array |-> FALSE]
    /\ pipeline = PhongDeferredPipeline_new
    /\ mesh = [normal_buffer |-> FALSE, index_buffer |-> FALSE,
               uv_buffer |-> FALSE, color_buffer |-> FALSE]
    /\ program = [use_normals |-> FALSE, use_uvs |-> FALSE, use_colors |-> FALSE]

\* The clear states the callers of the main specification pass.
CallerClearStates ==
    {ClearState_none, ClearState_color(0, 0, 0, 0), ClearState_depth(0)}

\* RenderTarget::new (color and depth), new_color, new_depth; created is
\* whether create_framebuffer returned a framebuffer.
New(s, color, depth, created) ==
    /\ CanCall
    /\ targets[s] = NoTarget
    /\ \A r \in Slots : r < s => targets[r] /= NoTarget
    /\ color \/ depth
    /\ IF created
       THEN /\ targets' = [targets EXCEPT ![s] =
                    [id |-> create_framebuffer, color_texture |-> color,
                     depth_texture |-> depth]]
            /\ framebuffers' = created_framebuffers(framebuffers)
            /\ ret' = Return("RenderTarget::new", targets'[s], Ok, <<>>)
       ELSE /\ UNCHANGED <<targets, framebuffers>>
            /\ ret' = Return("RenderTarget::new", NoTarget,
                             FailedToCreateFramebuffer, <<>>)
    /\ stack' = Called
    /\ UNCHANGED <<ctx, COPY_EFFECT, pipeline, mesh, program>>

\* Drop for RenderTarget
Drop(s) ==
    /\ CanCall
    /\ targets[s] /= NoTarget
    /\ s \notin Borrowed
    /\ ctx' = delete_framebuffer(ctx, targets[s].id)
    /\ framebuffers' = deleted_framebuffers(framebuffers, targets[s].id)
    /\ targets' = [targets EXCEPT ![s] = NoTarget]
    /\ stack' = Called
    /\ ret' = NoReturn
    /\ UNCHANGED <<COPY_EFFECT, pipeline, mesh, program>>

\* Screen::write: binds, clears and calls the render closure.
ScreenWrite(clear_state) ==
    /\ Len(stack) < MaxDepth
    /\ CanCall
    /\ LET begun == Screen_write(ctx, clear_state)
       IN  /\ ctx' = begun.ctx
           /\ stack' = Append(Called,
                    [op |-> "Screen::write", slot |-> Screen, log |-> begun.log])
    /\ ret' = NoReturn
    /\ UNCHANGED <<framebuffers, targets, COPY_EFFECT, pipeline, mesh, program>>

\* RenderTarget::write: binds, clears and calls the render closure, or
\* returns the error of bind.
Write(s, clear_state, check_ok) ==
    /\ Len(stack) < MaxDepth
    /\ CanCall
    /\ targets[s] /= NoTarget
    /\ LET begun == RenderTarget_write(ctx, targets[s], clear_state, check_ok)
       IN  /\ ctx' = begun.ctx
           /\ IF begun.value = Ok
              THEN /\ stack' = Append(Called,
                        [op |-> "RenderTarget::write", slot |-> s,
                         log |-> begun.log])
                   /\ ret' = NoReturn
              ELSE /\ stack' = Called
                   /\ ret' = Return("RenderTarget::write", targets[s],
                                    begun.value, begun.log)
    /\ UNCHANGED <<framebuffers, targets, COPY_EFFECT, pipeline, mesh, program>>

\* A draw call made by the running render closure (Mesh::render and the
\* like end in one): it goes to whatever framebuffer is bound for drawing.
Draw(px) ==
    /\ stack /= <<>>
    /\ ClosureSteps(Top) < MaxSteps
    /\ ctx' = draw(ctx, WriteMask_COLOR_AND_DEPTH, px)
    /\ stack' = [stack EXCEPT ![Len(stack)].log = Append(@, "draw")]
    /\ ret' = NoReturn
    /\ UNCHANGED <<framebuffers, targets, COPY_EFFECT, pipeline, mesh, program>>

\* The running render closure returns render_value; the write call that
\* called it finishes.
RenderReturn(render_value) ==
    /\ stack /= <<>>
    /\ Top.op /= "geometry_pass"
    /\ LET ended ==
            IF Top.op = "Screen::write"
            THEN Outcome(ctx, render_value, Top.log, COPY_EFFECT)
            ELSE RenderTarget_write_end(ctx, targets[Top.slot], render_value, Top.log)
       IN  /\ ctx' = ended.ctx
           /\ ret' = Return(Top.op,
                    IF Top.slot = Screen THEN NoTarget ELSE targets[Top.slot],
                    ended.value, ended.log)
    /\ stack' = SubSeq(stack, 1, Len(stack) - 1)
    /\ UNCHANGED <<framebuffers, targets, COPY_EFFECT, pipeline, mesh, program>>

\* A call of one of the copy functions that take no other target.
Finish(op, s, out) ==
    /\ ctx' = out.ctx
    /\ COPY_EFFECT' = out.effect
    /\ ret' = Return(op, targets[s], out.value, out.log)
    /\ stack' = Called
    /\ UNCHANGED <<framebuffers, targets, pipeline, mesh, program>>

CopyToScreen(s, in) ==
    /\ CanCall /\ targets[s] /= NoTarget
    /\ Finish("copy_to_screen", s, copy_to_screen(ctx, targets[s], in))

CopyColorToScreen(s, in) ==
    /\ CanCall /\ targets[s] /= NoTarget
    /\ Finish("copy_color_to_screen", s, copy_color_to_screen(ctx, targets[s], in))

CopyDepthToScreen(s, in) ==
    /\ CanCall /\ targets[s] /= NoTarget
    /\ Finish("copy_depth_to_screen", s, copy_depth_to_screen(ctx, targets[s], in))

Copy(s, o, in) ==
    /\ CanCall /\ targets[s] /= NoTarget /\ targets[o] /= NoTarget
    /\ Finish("copy", s, copy(ctx, targets[s], targets[o], in))

CopyColor(s, o, in) ==
    /\ CanCall /\ targets[s] /= NoTarget /\ targets[o] /= NoTarget
    /\ Finish("copy_color", s, copy_color(ctx, targets[s], targets[o], in))

CopyDepth(s, o, in) ==
    /\ CanCall /\ targets[s] /= NoTarget /\ targets[o] /= NoTarget
    /\ Finish("copy_depth", s, copy_depth(ctx, targets[s], targets[o], in))

\* The main specification: render targets are created and dropped, the
\* screen and the targets are written with nested render closures, and a
\* target is copied into another (also from inside a render closure).
Next ==
    \/ \E s \in Slots, color, depth, created \in BOOLEAN : New(s, color, depth, created)
    \/ \E s \in Slots : Drop(s)
    \/ \E cs \in CallerClearStates : ScreenWrite(cs)
    \/ \E s \in Slots, cs \in CallerClearStates, check_ok \in BOOLEAN : Write(s, cs, check_ok)
    \/ \E px \in Black : Draw(px)
    \/ \E v \in {Ok, RenderError} : RenderReturn(v)
    \/ \E s, o \in Slots, in \in Inputs : Copy(s, o, in)

Spec == Init /\ [][Next]_vars

\* The copy functions called at top level on render targets of every kind.
NextCopy ==
    \/ \E s \in Slots, color, depth, created \in BOOLEAN : New(s, color, depth, created)
    \/ \E s \in Slots : Drop(s)
    \/ \E s \in Slots, in \in Inputs : CopyToScreen(s, in)
    \/ \E s \in Slots, in \in Inputs : CopyColorToScreen(s, in)
    \/ \E s \in Slots, in \in Inputs : CopyDepthToScreen(s, in)
    \/ \E s, o \in Slots, in \in Inputs : Copy(s, o, in)
    \/ \E s, o \in Slots, in \in Inputs : CopyColor(s, o, in)
    \/ \E s, o \in Slots, in \in Inputs : CopyDepth(s, o, in)

SpecCopy == Init /\ [][NextCopy]_vars

\* Clearing the screen: the screen is written at top level with every clear
\* state, and the draws of the render closure produce any fragment value.
NextClear ==
    \/ \E cs \in ClearState : stack = <<>> /\ ScreenWrite(cs)
    \/ \E px \in Pixels : Draw(px)
    \/ \E v \in {Ok, RenderError} : RenderReturn(v)

SpecClear == Init /\ [][NextClear]_vars

\* Writing without clearing: the screen and one render target of any kind
\* are written at top level with ClearState::none() and with the default
\* clear state, and the draws produce any fragment value.
NextNone ==
    \/ \E color, depth, created \in BOOLEAN : New(1, color, depth, created)
    \/ Drop(1)
    \/ \E cs \in {ClearState_none, ClearState_default} : stack = <<>> /\ ScreenWrite(cs)
    \/ \E cs \in {ClearState_none, ClearState_default}, check_ok \in BOOLEAN :
            stack = <<>> /\ Write(1, cs, check_ok)
    \/ \E px \in Pixels : Draw(px)
    \/ \E v \in {Ok, RenderError} : RenderReturn(v)

SpecNone == Init /\ [][NextNone]_vars

\* ------------------------------------------- the pipeline and the mesh
\* geometry_pass borrows the pipeline mutably for as long as its render
\* closure runs, so the closure cannot call the pipeline.
PipelineBorrowed == \E i \in 1..Len(stack) : stack[i].op = "geometry_pass"

\* PhongDeferredPipeline::new, assigned to the pipeline when it returns Ok.
PipelineNew(in) ==
    /\ CanCall
    /\ ~PipelineBorrowed
    /\ pipeline' = IF PhongDeferredPipeline_new_value(in) = Ok
                   THEN PhongDeferredPipeline_new ELSE pipeline
    /\ ret' = Return("PhongDeferredPipeline::new", NoTarget,
                     PhongDeferredPipeline_new_value(in), <<>>)
    /\ stack' = Called
    /\ UNCHANGED <<ctx, framebuffers, targets, COPY_EFFECT, mesh, program>>

\* An assignment to the public field debug_type.
SetDebugType(d) ==
    /\ ~PipelineBorrowed
    /\ pipeline.debug_type /= d
    /\ pipeline' = [pipeline EXCEPT !.debug_type = d]
    /\ ret' = NoReturn
    /\ UNCHANGED <<ctx, framebuffers, targets, stack, COPY_EFFECT, mesh, program>>

\* geometry_pass: replaces the textures, binds and clears the temporary
\* render target and calls the render closure, or returns an error.
GeometryPass(in) ==
    /\ Len(stack) < MaxDepth
    /\ CanCall
    /\ ~PipelineBorrowed
    /\ pipeline.passes < MaxPasses
    /\ LET begun == geometry_pass(ctx, pipeline, in)
       IN  /\ ctx' = begun.ctx
           /\ pipeline' = begun.pipeline
           /\ IF begun.value = Ok
              THEN /\ stack' = Append(Called,
                        [op |-> "geometry_pass", slot |-> Untracked,
                         id |-> create_framebuffer, log |-> begun.log])
                   /\ ret' = NoReturn
              ELSE /\ stack' = Called
                   /\ ret' = Return("geometry_pass", NoTarget, begun.value, begun.log)
    /\ framebuffers' = geometry_pass_framebuffers(framebuffers, in)
    /\ UNCHANGED <<targets, COPY_EFFECT, mesh, program>>

\* The render closure of geometry_pass returns render_value; geometry_pass
\* finishes and its temporary render target is dropped.
GeometryPassReturn(render_value) ==
    /\ stack /= <<>>
    /\ Top.op = "geometry_pass"
    /\ LET ended == geometry_pass_end(ctx, pipeline, Top.id, render_value, Top.log)
       IN  /\ ctx' = ended.ctx
           /\ pipeline' = ended.pipeline
           /\ ret' = Return("geometry_pass", NoTarget, ended.value, ended.log)
    /\ framebuffers' = deleted_framebuffers(framebuffers, Top.id)
    /\ stack' = SubSeq(stack, 1, Len(stack) - 1)
    /\ UNCHANGED <<targets, COPY_EFFECT, mesh, program>>

\* light_pass
LightPass(in) ==
    /\ CanCall
    /\ ~PipelineBorrowed
    /\ LET out == light_pass(ctx, pipeline, in)
       IN  /\ ctx' = out.ctx
           /\ pipeline' = out.pipeline
           /\ ret' = Return("light_pass", NoTarget, out.value, out.log)
    /\ stack' = Called
    /\ UNCHANGED <<framebuffers, targets, COPY_EFFECT, mesh, program>>

\* geometry_pass_depth_texture; its temporaries are gone when it returns.
GeometryPassDepthTexture(in) ==
    /\ CanCall
    /\ ~PipelineBorrowed
    /\ LET out == geometry_pass_depth_texture(ctx, in)
       IN  /\ ctx' = out.ctx
           /\ COPY_EFFECT' = out.effect
           /\ ret' = Return("geometry_pass_depth_texture", NoTarget, out.value, out.log)
    /\ framebuffers' = geometry_pass_depth_texture_framebuffers(framebuffers, in)
    /\ stack' = Called
    /\ UNCHANGED <<targets, pipeline, mesh, program>>

\* Mesh::new from a CPUMesh with the given optional data, assigned to the
\* mesh when it returns Ok (created: no buffer creation failed).
MeshNew(normals, indices, uvs, colors, created) ==
    /\ CanCall
    /\ mesh' = IF created
               THEN [normal_buffer |-> normals, index_buffer |-> indices,
                     uv_buffer |-> uvs, color_buffer |-> colors]
               ELSE mesh
    /\ ret' = Return("Mesh::new", NoTarget, IF created THEN Ok ELSE ApiError, <<>>)
    /\ stack' = Called
    /\ UNCHANGED <<ctx, framebuffers, targets, COPY_EFFECT, pipeline, program>>

\* MeshProgram::new from a fragment shader that declares the given inputs,
\* assigned to the program when it returns Ok.
MeshProgramNew(use_normals, use_uvs, use_colors, created) ==
    /\ CanCall
    /\ program' = IF created
                  THEN [use_normals |-> use_normals, use_uvs |-> use_uvs,
                        use_colors |-> use_colors]
                  ELSE program
    /\ ret' = Return("MeshProgram::new", NoTarget,
                     IF created THEN Ok ELSE ApiError, <<>>)
    /\ stack' = Called
    /\ UNCHANGED <<ctx, framebuffers, targets, COPY_EFFECT, pipeline, mesh>>

\* Mesh::render with the program
MeshRender(in) ==
    /\ CanCall
    /\ LET out == Mesh_render(ctx, program, mesh, in)
       IN  /\ ctx' = out.ctx
           /\ ret' = Return("Mesh::render", NoTarget, out.value, out.log)
    /\ stack' = Called
    /\ UNCHANGED <<framebuffers, targets, COPY_EFFECT, pipeline, mesh, program>>

\* The pipeline: it is constructed, its debug type is set, geometry passes
\* run their render closures, and light passes and depth copies are made
\* between them, in normal and in debug mode.
NextPipeline ==
    \/ \E in \in PipelineInputs : PipelineNew(in)
    \/ \E d \in DebugType : SetDebugType(d)
    \/ \E in \in PipelineInputs : GeometryPass(in)
    \/ \E v \in {Ok, RenderError} : GeometryPassReturn(v)
    \/ \E in \in PipelineInputs : LightPass(in)
    \/ \E in \in PipelineInputs : GeometryPassDepthTexture(in)
    \/ \E px \in Black : Draw(px)

SpecPipeline == Init /\ [][NextPipeline]_vars

\* The mesh: meshes and programs of every kind, rendered at top level and
\* inside the render closure of Screen::write.
NextMesh ==
    \/ \E normals, indices, uvs, colors, created \in BOOLEAN :
            stack = <<>> /\ MeshNew(normals, indices, uvs, colors, created)
    \/ \E use_normals, use_uvs, use_colors, created \in BOOLEAN :
            stack = <<>> /\ MeshProgramNew(use_normals, use_uvs, use_colors, created)
    \/ stack = <<>> /\ ScreenWrite(ClearState_default)
    \/ \E in \in MeshInputs : MeshRender(in)
    \/ \E v \in {Ok, RenderError} : RenderReturn(v)

SpecMesh == Init /\ [][NextMesh]_vars

\* The errors a render closure returns: its own, or the error of a graphics
\* call it made.
ClosureErrors == {RenderError, ApiError}

\* Writing with closures that fail: the screen, a render target of any kind
\* and the render target array of geometry_pass are written, nested in each
\* other, and their render closures draw and return Ok or an error.
NextWrite ==
    \/ \E color, depth, created \in BOOLEAN : New(1, color, depth, created)
    \/ Drop(1)
    \/ \E cs \in {ClearState_none, ClearState_default} : ScreenWrite(cs)
    \/ \E cs \in {ClearState_none, ClearState_default}, check_ok \in BOOLEAN :
            Write(1, cs, check_ok)
    \/ \E in \in PipelineInputs : GeometryPass(in)
    \/ \E v \in {Ok} \cup ClosureErrors : GeometryPassReturn(v)
    \/ \E px \in Black : Draw(px)
    \/ \E v \in {Ok} \cup ClosureErrors : RenderReturn(v)

SpecWrite == Init /\ [][NextWrite]_vars

\* The framebuffers: render targets are constructed and dropped at top
\* level and inside render closures; they are written and copied, and the
\* pipeline makes its geometry passes and depth copies with their temporary
\* render targets, each call failing at every place that matters to a
\* framebuffer.
NextFramebuffers ==
    \/ \E s \in Slots, color, depth, created \in BOOLEAN : New(s, color, depth, created)
    \/ \E s \in Slots : Drop(s)
    \/ \E s \in Slots, check_ok \in BOOLEAN :
            stack = <<>> /\ Write(s, ClearState_none, check_ok)
    \/ \E s, o \in Slots, in \in Inputs : stack = <<>> /\ Copy(s, o, in)
    \/ \E in \in PipelineInputs :
            /\ stack = <<>>
            /\ in.fails \in {"none", "depth_texture", "framebuffer", "check"}
            /\ GeometryPass(in)
    \/ \E v \in {Ok, RenderError} : GeometryPassReturn(v)
    \/ \E in \in PipelineInputs :
            /\ stack = <<>>
            /\ in.fails \in {"none", "depth_texture", "framebuffer",
                             "other_framebuffer", "check", "effect", "apply"}
            /\ GeometryPassDepthTexture(in)
    \/ \E v \in {Ok, RenderError} : RenderReturn(v)

SpecFramebuffers == Init /\ [][NextFramebuffers]_vars

\* ------------------------------------------------------------------ claims
\* C1: every draw call issued by the render closure passed to Screen::write
\* goes to the screen: at each such draw call the framebuffer bound for
\* drawing is the default framebuffer, also after the closure has called
\* RenderTarget::write or one of the copy functions.
C1_ScreenClosureDrawsToScreen ==
    [][\A px \in Black :
        (Draw(px) /\ Top.op = "Screen::write") => ctx.draw_fb = Screen]_vars

\* C2 (as stated): every RenderTarget::write call binds, clears, runs the
\* render closure once and then generates the mip maps of the color texture
\* if the target has one, in this order, with the clear before every draw.
C2_WriteStepsOnEveryCall ==
    ret.op = "RenderTarget::write" =>
        /\ Len(ret.log) >= 3
        /\ Events(ret.log, "bind") = {1}
        /\ Events(ret.log, "clear") = {2}
        /\ Events(ret.log, "render") = {3}
        /\ Events(ret.log, "generate_mip_maps") =
                (IF ret.color_texture THEN {Len(ret.log)} ELSE {})

\* C2 (amended): RenderTarget::write binds first; if bind fails it returns
\* that error and does nothing else; otherwise it clears, runs the render
\* closure once, and generates the mip maps last, exactly when the closure
\* returned Ok and the target has a color texture. The clear precedes every
\* draw call of the closure.
C2_WriteSteps ==
    ret.op = "RenderTarget::write" =>
        /\ Events(ret.log, "bind") = {1}
        /\ IF ret.value = FailedToCreateFramebuffer
           THEN ret.log = <<"bind">>
           ELSE /\ Len(ret.log) >= 3
                /\ Events(ret.log, "clear") = {2}
                /\ Events(ret.log, "render") = {3}
                /\ \A i \in Events(ret.log, "draw") : i > 3
                /\ ret.value \in {Ok, RenderError}
                /\ Events(ret.log, "generate_mip_maps") =
                        (IF ret.value = Ok /\ ret.color_texture
                         THEN {Len(ret.log)} ELSE {})

C2_Witness ==
    /\ ret.op = "RenderTarget::write"
    /\ ret.value = Ok
    /\ ret.color_texture
    /\ Events(ret.log, "draw") /= {}
    /\ ret.log[Len(ret.log)] = "generate_mip_maps"

\* A return value that is an Err.
IsError(value) == value \notin {Ok, Panic}

\* C8: copy_to_screen on a render target that lacks the color or the depth
\* texture returns Error::FailedToCopyFromRenderTarget and issues no
\* graphics call: it takes no step, the screen framebuffer is not bound,
\* nothing is drawn and the graphics context is left as it was.
C8_CopyToScreenRefused ==
    [][ret'.op = "copy_to_screen" => \A s \in Slots, in \in Inputs :
        (CopyToScreen(s, in)
            /\ (~targets[s].color_texture \/ ~targets[s].depth_texture))
        => /\ ret'.value = FailedToCopyFromRenderTarget
           /\ ret'.log = <<>>
           /\ ctx' = ctx
           /\ COPY_EFFECT' = COPY_EFFECT]_vars

C8_Witness ==
    /\ ret.op = "copy_to_screen"
    /\ ret.color_texture /\ ~ret.depth_texture
    /\ ret.value = FailedToCopyFromRenderTarget
    /\ ctx.draw_fb /= Screen

\* C9 (as stated): copy_color_to_screen returns an error on a target without
\* a color texture and reaches the draw on every target with one.
C9_ColorAlwaysReachesDraw ==
    ret.op = "copy_color_to_screen" =>
        IF ret.color_texture
        THEN Events(ret.log, "apply") /= {}
        ELSE IsError(ret.value)

\* C9 (amended): copy_color_to_screen returns
\* Error::FailedToCopyFromRenderTarget on a target without a color texture;
\* on a target with a color texture, with or without a depth texture, it
\* reaches the draw exactly when creating the copy effect (on its first use)
\* and binding the color texture succeed, and returns the error of the
\* failing call otherwise.
C9_ColorReachesDraw ==
    [][ret'.op = "copy_color_to_screen" => \A s \in Slots, in \in Inputs :
        CopyColorToScreen(s, in) =>
            IF targets[s].color_texture
            THEN IF (COPY_EFFECT.copy \/ in.effect_ok) /\ in.texture_ok
                 THEN /\ Events(ret'.log, "apply") /= {}
                      /\ ret'.value \in {Ok, ApiError}
                 ELSE /\ ret'.value = ApiError
                      /\ Events(ret'.log, "apply") = {}
            ELSE ret'.value = FailedToCopyFromRenderTarget]_vars

C9_Witness ==
    /\ ret.op = "copy_color_to_screen"
    /\ ret.color_texture /\ ~ret.depth_texture
    /\ ret.value = Ok
    /\ Events(ret.log, "draw") /= {}

\* C10 (as stated): copy_depth_to_screen returns an error on a target
\* without a depth texture and reaches the draw on every target with one.
C10_DepthAlwaysReachesDraw ==
    ret.op = "copy_depth_to_screen" =>
        IF ret.depth_texture
        THEN Events(ret.log, "apply") /= {}
        ELSE IsError(ret.value)

\* C10 (amended): copy_depth_to_screen returns
\* Error::FailedToCopyFromRenderTarget on a target without a depth texture;
\* on a target with a depth texture, with or without a color texture, it
\* reaches the draw exactly when creating the copy effect (on its first use)
\* and binding the depth texture succeed, and returns the error of the
\* failing call otherwise.
C10_DepthReachesDraw ==
    [][ret'.op = "copy_depth_to_screen" => \A s \in Slots, in \in Inputs :
        CopyDepthToScreen(s, in) =>
            IF targets[s].depth_texture
            THEN IF (COPY_EFFECT.copy \/ in.effect_ok) /\ in.texture_ok
                 THEN /\ Events(ret'.log, "apply") /= {}
                      /\ ret'.value \in {Ok, ApiError}
                 ELSE /\ ret'.value = ApiError
                      /\ Events(ret'.log, "apply") = {}
            ELSE ret'.value = FailedToCopyFromRenderTarget]_vars

C10_Witness ==
    /\ ret.op = "copy_depth_to_screen"
    /\ ret.depth_texture /\ ~ret.color_texture
    /\ ret.value = Ok
    /\ Events(ret.log, "draw") /= {}

\* C3: in every state, for every clear state (also one that names only
\* some of the color channels), Screen::write hands over to the render
\* closure with the screen bound, with exactly the channels of the screen
\* whose field in the clear state is Some set to the value of their field,
\* and with the channels whose field is None as they were.
C3_ScreenClearsGivenChannels ==
    \A cs \in ClearState :
        LET begun == Screen_write(ctx, cs)
        IN  /\ begun.value = Ok
            /\ begun.ctx.draw_fb = Screen
            /\ \A ch \in Channels :
                begun.ctx.content[Screen][ch] =
                    IF is_some(cs[ch]) THEN cs[ch][1] ELSE ctx.content[Screen][ch]

\* A partial clear has acted: red was cleared to MaxVal next to channels
\* that kept another, older value.
C3_Witness ==
    /\ stack /= <<>>
    /\ Top.op = "Screen::write"
    /\ Top.log = <<"bind", "clear", "render">>
    /\ ~ctx.mask.green /\ ctx.mask.red /\ ~ctx.mask.depth
    /\ ctx.content[Screen].red = MaxVal
    /\ ctx.content[Screen].green = 0
    /\ ctx.content[Screen].blue = MaxVal
    /\ ctx.content[Screen].depth = MaxVal

\* C4: with ClearState::none() nothing is cleared. Screen::write and
\* RenderTarget::write called with ClearState::none() leave the contents of
\* every surface as they were when they hand over to the render closure, and
\* when a closure that made no draw call and no other call returns, the rest
\* of write (the mip maps) leaves them unchanged too.
C4_NoneClearsNothing ==
    [][/\ Len(stack') = Len(stack) + 1 =>
            ((ScreenWrite(ClearState_none)
                    \/ \E s \in Slots, check_ok \in BOOLEAN : Write(s, ClearState_none, check_ok))
                => ctx'.content = ctx.content)
       /\ Len(stack') = Len(stack) - 1 =>
            (Top.log = <<"bind", "clear", "render">>
                => ctx'.content = ctx.content)]_vars

\* A render target whose depth differs from the clear depth register has
\* been written with ClearState::none() and an empty closure.
C4_Witness ==
    /\ ret.op = "RenderTarget::write"
    /\ ret.value = Ok
    /\ ret.depth_texture
    /\ ret.log = <<"bind", "clear", "render">>
    /\ ctx.mask = [ch \in Channels |-> FALSE]
    /\ ctx.content[1].depth /= ctx.clear_depth

\* The operations of PhongDeferredPipeline.
PipelineOps ==
    {"PhongDeferredPipeline::new", "geometry_pass", "light_pass",
     "geometry_pass_depth_texture"}

\* C5: when light_pass has bound "gbuffer" and "depthMap", the two textures
\* are the ones of one and the same geometry_pass call, the most recent
\* one, and that call has written them (before the first geometry_pass they
\* are the two textures of new). Stated here in its weakest reading: the two
\* come from the same call, and if that is a geometry_pass it wrote them.
C5_LightPassBindsLastGeometryPass ==
    (/\ ret.op = "light_pass"
     /\ Events(ret.log, "depthMap") /= {})
        => /\ pipeline.gbuffer[1].created_by = pipeline.depthMap[1].created_by
           /\ pipeline.gbuffer[1].created_by > 0 =>
                (pipeline.gbuffer[1].written /\ pipeline.depthMap[1].written)

\* C6: no operation of the pipeline ends in a panic, whichever graphics
\* call fails during it: every failure comes back as an error value.
C6_PipelineNeverPanics ==
    ret.op \in PipelineOps => ret.value /= Panic

\* The program requires an attribute the mesh does not have.
MissingAttribute ==
    \/ program.use_uvs /\ ~mesh.uv_buffer
    \/ program.use_normals /\ ~mesh.normal_buffer
    \/ program.use_colors /\ ~mesh.color_buffer
\* The draw calls of a call.
DrawCalls(log) ==
    Cardinality(Events(log, "draw_elements") \cup Events(log, "draw_arrays"))

\* C7: Mesh::render returns an error and issues no draw call when the
\* program requires an attribute the mesh does not have, and issues exactly
\* one draw call when the mesh has every attribute the program requires.
C7_MeshRenderChecksAttributes ==
    ret.op = "Mesh::render" =>
        IF MissingAttribute
        THEN IsError(ret.value) /\ DrawCalls(ret.log) = 0
        ELSE DrawCalls(ret.log) = 1

\* C11: RenderTarget::copy called on a source render target that lacks the
\* color or the depth texture returns an error, whatever the other render
\* target has: Error::FailedToCopyFromRenderTarget, before the other target
\* is bound or anything is drawn.
C11_CopyRefusesSource ==
    [][ret'.op = "copy" => \A s, o \in Slots, in \in Inputs :
        (Copy(s, o, in)
            /\ (~targets[s].color_texture \/ ~targets[s].depth_texture))
        => /\ IsError(ret'.value)
           /\ ret'.value = FailedToCopyFromRenderTarget
           /\ ret'.log = <<>>
           /\ ctx' = ctx]_vars

\* copy was refused for a source without depth texture while a render
\* target with both textures was there to copy into.
C11_Witness ==
    /\ ret.op = "copy"
    /\ ret.color_texture /\ ~ret.depth_texture
    /\ ret.value = FailedToCopyFromRenderTarget
    /\ \E o \in Slots : targets[o].color_texture /\ targets[o].depth_texture

\* C12: RenderTarget::copy_color called on a source render target that has
\* no color texture returns an error, whatever the other render target has:
\* Error::FailedToCopyFromRenderTarget, before the other target is bound or
\* anything is drawn.
C12_CopyColorRefusesSource ==
    [][ret'.op = "copy_color" => \A s, o \in Slots, in \in Inputs :
        (CopyColor(s, o, in) /\ ~targets[s].color_texture)
        => /\ IsError(ret'.value)
           /\ ret'.value = FailedToCopyFromRenderTarget
           /\ ret'.log = <<>>
           /\ ctx' = ctx]_vars

\* copy_color was refused for a source with only a depth texture while a
\* render target with a color texture was there to copy into.
C12_Witness ==
    /\ ret.op = "copy_color"
    /\ ~ret.color_texture /\ ret.depth_texture
    /\ ret.value = FailedToCopyFromRenderTarget
    /\ \E o \in Slots : targets[o].color_texture

\* C13: when the render closure of Screen::write, RenderTarget::write or
\* RenderTargetArray::write (the write of geometry_pass) returns an error,
\* the write call returns that same error; its first steps were the bind and
\* the clear, before the closure was called; and it does not generate the
\* mip maps.
C13_ClosureErrorIsReturned ==
    [][Len(stack') < Len(stack) => \A v \in ClosureErrors :
        (RenderReturn(v) \/ GeometryPassReturn(v))
        => /\ ret'.op = Top.op
           /\ ret'.value = v
           /\ Len(ret'.log) >= 3
           /\ SubSeq(ret'.log, 1, 3) = <<"bind", "clear", "render">>
           /\ Events(ret'.log, "generate_mip_maps") = {}]_vars

\* RenderTarget::write on a target with a color texture has returned the
\* error of a closure that had drawn before it failed.
C13_Witness ==
    /\ ret.op = "RenderTarget::write"
    /\ ret.color_texture
    /\ ret.value = ApiError
    /\ Events(ret.log, "draw") /= {}

\* The live RenderTarget values, and the live RenderTargetArray values (the
\* temporary of each geometry_pass whose closure is running).
LiveTargets == {s \in Slots : targets[s] /= NoTarget}
LiveArrays == {i \in 1..Len(stack) : stack[i].op = "geometry_pass"}

\* C14: the framebuffers that exist are exactly the framebuffers of the live
\* RenderTarget and RenderTargetArray values, one each, after any sequence
\* of constructions, writes, copies, geometry passes, depth copies and
\* drops, failed ones included; and when geometry_pass or
\* geometry_pass_depth_texture has returned, no framebuffer of its own is
\* left.
C14_FramebuffersAreLiveValues ==
    /\ framebuffers = {targets[s].id : s \in LiveTargets}
                        \cup {stack[i].id : i \in LiveArrays}
    /\ Cardinality(framebuffers) = Cardinality(LiveTargets) + Cardinality(LiveArrays)
    /\ ret.op \in {"geometry_pass", "geometry_pass_depth_texture"} =>
            /\ LiveArrays = {}
            /\ framebuffers = {targets[s].id : s \in LiveTargets}

\* geometry_pass has returned the error of bind, after it had created its
\* temporary render target, while a RenderTarget was alive.
C14_Witness ==
    /\ ret.op = "geometry_pass"
    /\ ret.value = FailedToCreateFramebuffer
    /\ ret.log = <<"bind">>
    /\ LiveTargets /= {}
    /\ Cardinality(framebuffers) = Cardinality(LiveTargets)

====
